---- MODULE Spec2Model ----
(***************************************************************************)
(* Model of the CSL transmission scheduler of OpenThread                   *)
(* (src/core/thread/csl_tx_scheduler.cpp).                                 *)
(*                                                                         *)
(* The scheduler state is mCslTxChild, mCslTxMessage, mFrameContext and    *)
(* mCslFrameRequestAhead; the child table is the function `children`.      *)
(* The collaborators (Mac, IndirectSender, the radio clock, the child      *)
(* table's owner) are modelled at the interface the scheduler uses.        *)
(* Times are microseconds and stay far below 2^31, so the uint32_t casts   *)
(* of the source are the identity on every value that occurs here.         *)
(***************************************************************************)
EXTENDS Integers, Sequences, FiniteSets, TLC

\* ------------------------------------------------------------------ bounds
NumChildren == 2
NumMessages == 1
MaxSeq == 2
MaxIndirectTxAttempts == 1

\* ------------------------------------------------------- program constants
\* kMaxCslTriggeredTxAttempts, kUsPerTenSymbols, Time::kMaxDuration and
\* OPENTHREAD_CONFIG_MAC_CSL_REQUEST_AHEAD_US are set in headers; the values
\* are OpenThread's defaults, except the attempt limit, which is kept small.
kMaxCslTriggeredTxAttempts == 2
kUsPerTenSymbols == 160
kMaxDuration == 2147483647
kCslRequestAheadUs == 2000
kBusFrameBytes == 150
kBitsPerByte == 8
kUsPerSecond == 1000000
kUsPerMs == 1000

\* --------------------------------------------------------- input domains
Children == 1..NumChildren
NoChild == 0
Messages == 1..NumMessages
NoMessage == 0
BusSpeeds == {0, 1000000}
kBusSpeedHz == 0
\* What otPlatRadioGetNow() returns to a handler (microseconds).
ClockValues == {100, 1500}
\* The CSL parameters a child synchronizes with, and the rx timestamp of the
\* frame that carried them.
CslConfigs ==
    { [period |-> 10, phase |-> 7, channel |-> 11, timeout |-> 30, lastRx |-> 0],
      [period |-> 5,  phase |-> 2, channel |-> 0,  timeout |-> 30, lastRx |-> 100] }
Results == {"None", "NoAck", "ChannelAccessFailure", "Abort"}
PrepareErrors == {"None", "Failed"}
kPanChannel == 15

\* A frame as the scheduler sees it.  `empty` is Mac::TxFrame::IsEmpty().
EmptyFrame ==
    [empty |-> TRUE, seq |-> 0, sec |-> FALSE, fc |-> 0, kid |-> 0]

\* The frames IndirectSender::PrepareFrameForChild can produce: a fresh
\* sequence number, and for a secured frame a fresh frame counter / key id.
PlainFrames ==
    { [empty |-> FALSE, seq |-> 1, sec |-> FALSE, fc |-> 0, kid |-> 0] }
NewFrames ==
    PlainFrames
    \cup
    { [empty |-> FALSE, seq |-> s, sec |-> TRUE, fc |-> s, kid |-> s] : s \in 1..MaxSeq }

VARIABLES
    children,               \* ChildTable: child -> its CSL / indirect-tx record
    mCslTxChild,            \* CslTxScheduler::mCslTxChild (NoChild = nullptr)
    mCslTxMessage,          \* CslTxScheduler::mCslTxMessage (NoMessage = nullptr)
    mMessageNextOffset,     \* CslTxScheduler::mFrameContext.mMessageNextOffset
    mCslFrameRequestAhead,  \* CslTxScheduler::mCslFrameRequestAhead
    macReq,                 \* Mac: a CSL frame transmission is requested
    macOp,                  \* Mac: "none" | "tx" (frame on air) | "aborted"
    txFrame,                \* Mac: the frame of the attempt in progress
    txChild,                \* the child the frame in progress was prepared for
    pendingRetry,           \* per child: the failed attempt a retry is due for
    attemptHistory,         \* noAcked: per child, the attempts to it made since
                            \* its counter was last reset that ended in NoAck;
                            \* stale: the attempt in progress began before Clear
    last                    \* the last operation and what it called / returned

vars == <<children, mCslTxChild, mCslTxMessage, mMessageNextOffset,
          mCslFrameRequestAhead, macReq, macOp, txFrame, txChild, pendingRetry,
          attemptHistory, last>>

schedVars == <<mCslTxChild, mCslTxMessage, mMessageNextOffset, mCslFrameRequestAhead>>
macVars == <<macReq, macOp, txFrame, txChild>>

\* No attempt made so far.
NoHistory == [noAcked |-> [c \in Children |-> 0], stale |-> FALSE]

\* No failed attempt is waiting for its retry.
NoRetry == [frame |-> EmptyFrame, error |-> "None", cleared |-> FALSE]

\* ------------------------------------------------------------ child record
DefaultChild ==
    [ cslSynchronized |-> FALSE, cslPeriod |-> 0, cslPhase |-> 0, cslChannel |-> 0,
      cslTimeout |-> 0, cslLastHeard |-> 0, lastRxTimestamp |-> 0,
      cslTxAttempts |-> 0, indirectTxAttempts |-> 0,
      indirectMessage |-> NoMessage, indirectMessageCount |-> 0,
      indirectDataSequenceNumber |-> 0, indirectFrameCounter |-> 0, indirectKeyId |-> 0 ]

\* What an operation reports: its return value, the frame it filled in, and the
\* calls it made to Mac and to the IndirectSender.  `afterClear` tells that the
\* operation before it was Clear.
NoOutput ==
    [ op |-> "Init", error |-> "None", frame |-> EmptyFrame,
      isARetransmission |-> FALSE, channel |-> 0, txDelay |-> 0, txDelayBaseTime |-> 0,
      csmaCaEnabled |-> TRUE, prepareCalls |-> 0,
      rescheduled |-> FALSE, macRequests |-> 0, macDelay |-> 0,
      sentToChild |-> 0, sentChild |-> NoChild, sentError |-> "None",
      handledChild |-> NoChild, forChild |-> NoChild, now |-> 0,
      prepared |-> EmptyFrame, retryOf |-> NoRetry,
      cslTxAttemptsBefore |-> 0, indirectTxAttemptsBefore |-> 0,
      nextTxWindow |-> 0, delay |-> 0, prevNextTxWindow |-> 0,
      afterClear |-> FALSE ]

Output(name) == [NoOutput EXCEPT !.op = name]

\* The report of a scheduler operation called in the current state.
Called(name) == [Output(name) EXCEPT !.afterClear = (last.op = "Clear")]

\* CslTxScheduler::InitFrameRequestAhead
InitFrameRequestAhead(busSpeedHz) ==
    LET busTxTimeUs ==
            IF busSpeedHz = 0 THEN 0
            ELSE (kBusFrameBytes * kBitsPerByte * kUsPerSecond + busSpeedHz - 1) \div busSpeedHz
    IN (kCslRequestAheadUs + busTxTimeUs + kUsPerTenSymbols - 1) \div kUsPerTenSymbols

Init ==
    /\ children = [c \in Children |-> DefaultChild]
    /\ mCslTxChild = NoChild
    /\ mCslTxMessage = NoMessage
    /\ mMessageNextOffset = 0
    /\ mCslFrameRequestAhead = InitFrameRequestAhead(kBusSpeedHz)
    /\ macReq = FALSE
    /\ macOp = "none"
    /\ txFrame = EmptyFrame
    /\ txChild = NoChild
    /\ pendingRetry = [c \in Children |-> NoRetry]
    /\ attemptHistory = NoHistory
    /\ last = NoOutput

\* ------------------------------------------------------------ Timing model
\* RollForward with the loop condition `>` in place of `>=`.
RECURSIVE RollForwardStrict(_, _, _, _)
RollForwardStrict(nextTxWindow, aRadioNow, ahead, periodInUs) ==
    IF aRadioNow + ahead > nextTxWindow
    THEN RollForwardStrict(nextTxWindow + periodInUs, aRadioNow, ahead, periodInUs)
    ELSE nextTxWindow

\* The `while` loop of GetNextCslTransmissionDelay (line 164).
RECURSIVE RollForward(_, _, _, _)
RollForward(nextTxWindow, aRadioNow, ahead, periodInUs) ==
    IF aRadioNow + ahead >= nextTxWindow
    THEN RollForward(nextTxWindow + periodInUs, aRadioNow, ahead, periodInUs)
    ELSE nextTxWindow

\* With a period of 0 the `%` of line 162 divides by zero: the call has no
\* defined result.  The model marks such a call with this window time, which
\* no defined call returns.
UndefinedWindow == -1

\* GetNextCslTransmissionDelay that starts from aRadioNow itself instead of
\* the start of aRadioNow's period.
GetNextCslTransmissionDelayUnaligned(aChild, aRadioNow, ahead) ==
    LET periodInUs    == aChild.cslPeriod * kUsPerTenSymbols
        firstTxWindow == aChild.lastRxTimestamp + aChild.cslPhase * kUsPerTenSymbols
        start         == aRadioNow + (firstTxWindow % periodInUs)
        nextTxWindow  == IF periodInUs = 0 THEN UndefinedWindow
                         ELSE RollForward(start, aRadioNow, ahead, periodInUs)
    IN [ nextTxWindow   |-> nextTxWindow,
         delayFromLastRx |-> nextTxWindow - aChild.lastRxTimestamp,
         delay          |-> nextTxWindow - aRadioNow ]

\* CslTxScheduler::GetNextCslTransmissionDelay: the return value (`delay`), the
\* out-parameter aDelayFromLastRx, and the window time both are derived from.
GetNextCslTransmissionDelay(aChild, aRadioNow, ahead) ==
    LET periodInUs    == aChild.cslPeriod * kUsPerTenSymbols
        firstTxWindow == aChild.lastRxTimestamp + aChild.cslPhase * kUsPerTenSymbols
        start         == aRadioNow - (aRadioNow % periodInUs) + (firstTxWindow % periodInUs)
        nextTxWindow  == IF periodInUs = 0 THEN UndefinedWindow
                         ELSE RollForward(start, aRadioNow, ahead, periodInUs)
    IN [ nextTxWindow   |-> nextTxWindow,
         delayFromLastRx |-> nextTxWindow - aChild.lastRxTimestamp,
         delay          |-> nextTxWindow - aRadioNow ]

\* ------------------------------------------------------ Candidate selection
\* IsEligible without the attempt limit.
IsEligibleIgnoringAttempts(child) ==
    /\ child.cslSynchronized
    /\ child.indirectMessageCount # 0

\* The filter of RescheduleCslTx (lines 133-137), negated.
IsEligible(child) ==
    /\ child.cslSynchronized
    /\ child.indirectMessageCount # 0
    /\ child.cslTxAttempts < kMaxCslTriggeredTxAttempts

\* IsBetter with `<=`, so that the last of several equal delays wins.
IsBetterOrEqual(delay, minDelayTime) == delay <= minDelayTime

\* Whether a candidate's delay replaces the best one so far (line 141).
IsBetter(delay, minDelayTime) == delay < minDelayTime

\* The loop of RescheduleCslTx over the child table, in iteration order.
RECURSIVE ScanChildren(_, _, _, _, _, _)
ScanChildren(ch, now, ahead, i, minDelayTime, bestChild) ==
    IF i > NumChildren
    THEN [bestChild |-> bestChild, minDelayTime |-> minDelayTime]
    ELSE IF ~IsEligible(ch[i])
         THEN ScanChildren(ch, now, ahead, i + 1, minDelayTime, bestChild)
         ELSE LET delay == GetNextCslTransmissionDelay(ch[i], now, ahead).delay
              IN IF IsBetter(delay, minDelayTime)
                 THEN ScanChildren(ch, now, ahead, i + 1, delay, i)
                 ELSE ScanChildren(ch, now, ahead, i + 1, minDelayTime, bestChild)

\* RescheduleCslTx that hands Mac the delay in microseconds.
RescheduleCslTxInMicroseconds(ch, now, ahead) ==
    LET r == ScanChildren(ch, now, ahead, 1, kMaxDuration, NoChild)
    IN [ bestChild   |-> r.bestChild,
         macRequests |-> IF r.bestChild # NoChild THEN 1 ELSE 0,
         macDelay    |-> IF r.bestChild # NoChild THEN r.minDelayTime ELSE 0 ]

\* CslTxScheduler::RescheduleCslTx: the new mCslTxChild, and the request it
\* makes to Mac::RequestCslFrameTransmission (none when bestChild is nullptr).
RescheduleCslTx(ch, now, ahead) ==
    LET r == ScanChildren(ch, now, ahead, 1, kMaxDuration, NoChild)
    IN [ bestChild   |-> r.bestChild,
         macRequests |-> IF r.bestChild # NoChild THEN 1 ELSE 0,
         macDelay    |-> IF r.bestChild # NoChild THEN r.minDelayTime \div kUsPerMs ELSE 0 ]

Rescheduled(out, r, now) ==
    [out EXCEPT !.rescheduled = TRUE, !.macRequests = r.macRequests,
                !.macDelay = r.macDelay, !.now = now]

\* UpdateReschedules without the test of mCslTxMessage.
UpdateReschedulesAlways == TRUE

\* Whether Update calls RescheduleCslTx (line 85).
UpdateReschedules == mCslTxMessage = NoMessage

\* CslTxScheduler::Update, run on the child table `ch`.
UpdateOn(ch) ==
    /\ IF UpdateReschedules
       THEN \E radioNow \in ClockValues :
            LET r == RescheduleCslTx(ch, radioNow, mCslFrameRequestAhead)
            IN /\ mCslTxChild' = r.bestChild
               /\ macReq' = (macReq \/ r.macRequests > 0)
               /\ last' = Rescheduled(Called("Update"), r, radioNow)
               /\ UNCHANGED mMessageNextOffset
       ELSE IF mCslTxChild # NoChild /\ ch[mCslTxChild].indirectMessage # mCslTxMessage
            THEN /\ mCslTxChild' = NoChild
                 /\ mMessageNextOffset' = 0
                 /\ last' = Called("Update")
                 /\ UNCHANGED macReq
            ELSE /\ last' = Called("Update")
                 /\ UNCHANGED <<mCslTxChild, mMessageNextOffset, macReq>>
    /\ UNCHANGED <<mCslTxMessage, mCslFrameRequestAhead, macOp, txFrame, txChild,
                   pendingRetry, attemptHistory>>

\* CslTxScheduler::Update
Update ==
    /\ UpdateOn(children)
    /\ UNCHANGED children

\* ClearChild without SetCslSynchronized(false).
ClearChildKeepsSynchronized(child) ==
    [child EXCEPT !.cslTxAttempts = 0, !.cslChannel = 0,
                  !.cslTimeout = 0, !.cslPeriod = 0, !.cslPhase = 0, !.cslLastHeard = 0]

\* ClearChild without SetCslTxAttempts(0).
ClearChildKeepsAttempts(child) ==
    [child EXCEPT !.cslSynchronized = FALSE, !.cslChannel = 0,
                  !.cslTimeout = 0, !.cslPeriod = 0, !.cslPhase = 0, !.cslLastHeard = 0]

\* The loop body of CslTxScheduler::Clear (lines 102-108).
ClearChild(child) ==
    [child EXCEPT !.cslTxAttempts = 0, !.cslSynchronized = FALSE, !.cslChannel = 0,
                  !.cslTimeout = 0, !.cslPeriod = 0, !.cslPhase = 0, !.cslLastHeard = 0]

\* CslTxScheduler::Clear
Clear ==
    /\ children' = [c \in Children |-> ClearChild(children[c])]
    /\ mMessageNextOffset' = 0
    /\ mCslTxChild' = NoChild
    /\ mCslTxMessage' = NoMessage
    /\ pendingRetry' = [c \in Children |->
                           IF pendingRetry[c] = NoRetry THEN NoRetry
                           ELSE [pendingRetry[c] EXCEPT !.cleared = TRUE]]
    /\ attemptHistory' = [NoHistory EXCEPT !.stale = (macOp # "none")]
    /\ last' = Output("Clear")
    /\ UNCHANGED <<mCslFrameRequestAhead, macVars>>

\* ------------------------------------------------- Mac's calling discipline
\* Mac begins a requested CSL transmission when no other is in progress, and
\* asks the scheduler for the frame.
MacBeginsTransmission == macReq /\ macOp = "none"

\* Mac owes the scheduler the completion callback of the attempt it began.
MacOwesCallback == macOp # "none"

\* What Mac reports: any result for a frame it sent, Abort with an empty frame
\* when the frame request failed.
MacResults == IF macOp = "tx" THEN Results ELSE {"Abort"}
MacSentFrame == IF macOp = "tx" THEN txFrame ELSE EmptyFrame

\* ---------------------------------------------------- Frame request handler
\* OverlayRetransmission that marks the retransmission but keeps the fresh
\* sequence number.
OverlayKeepsSequence(child, frame) ==
    IF child.indirectTxAttempts > 0 \/ child.cslTxAttempts > 0
    THEN [ isARetransmission |-> TRUE,
           frame |-> [frame EXCEPT
                        !.fc  = IF frame.sec THEN child.indirectFrameCounter ELSE @,
                        !.kid = IF frame.sec THEN child.indirectKeyId ELSE @] ]
    ELSE [ isARetransmission |-> FALSE, frame |-> frame ]

\* Lines 182-200 of HandleFrameRequest: the retransmission overlay.  `frame`
\* is the frame as IndirectSender::PrepareFrameForChild filled it in.
OverlayRetransmission(child, frame) ==
    IF child.indirectTxAttempts > 0 \/ child.cslTxAttempts > 0
    THEN [ isARetransmission |-> TRUE,
           frame |-> [frame EXCEPT
                        !.seq = child.indirectDataSequenceNumber,
                        !.fc  = IF frame.sec THEN child.indirectFrameCounter ELSE @,
                        !.kid = IF frame.sec THEN child.indirectKeyId ELSE @] ]
    ELSE [ isARetransmission |-> FALSE, frame |-> frame ]

\* Lines 202-203: the channel the frame is sent on.
FrameChannel(child) ==
    IF child.cslChannel = 0 THEN kPanChannel ELSE child.cslChannel

\* RequestWithoutChild that leaves `error` at OT_ERROR_NONE.
RequestWithoutChildSucceeds == Called("HandleFrameRequest")

\* What HandleFrameRequest reports when mCslTxChild is nullptr (line 176):
\* OT_ERROR_ABORT, the frame untouched and no call of PrepareFrameForChild.
RequestWithoutChild == [Called("HandleFrameRequest") EXCEPT !.error = "Abort"]

\* CslTxScheduler::HandleFrameRequest, called by Mac when it begins the
\* requested CSL transmission.  The outcome of PrepareFrameForChild (its error,
\* the frame, drawn from `frames`, and the frame context it fills in) is the
\* collaborator's choice; a frame it prepared leaves a next offset of 1 in the
\* frame context.  pendingRetry and last record what the call saw and returned.
HandleFrameRequest(frames) ==
    /\ MacBeginsTransmission
    /\ macReq' = FALSE
    /\ IF mCslTxChild = NoChild
       THEN /\ last' = RequestWithoutChild
            /\ macOp' = "aborted"
            /\ UNCHANGED <<mCslTxMessage, mMessageNextOffset, txFrame, txChild, pendingRetry>>
       ELSE \E perr \in PrepareErrors, f \in frames, radioNow \in ClockValues :
              LET child == children[mCslTxChild]
                  out   == [Called("HandleFrameRequest") EXCEPT
                              !.prepareCalls = 1, !.forChild = mCslTxChild]
              IN IF perr # "None"
                 THEN /\ last' = [out EXCEPT !.error = perr]
                      /\ macOp' = "aborted"
                      /\ UNCHANGED <<mCslTxMessage, mMessageNextOffset, txFrame, txChild, pendingRetry>>
                 ELSE /\ mMessageNextOffset' = 1
                      /\ mCslTxMessage' = child.indirectMessage
                      /\ IF child.indirectMessage = NoMessage
                         THEN /\ last' = [out EXCEPT !.error = "Abort", !.frame = f, !.prepared = f]
                              /\ macOp' = "aborted"
                              /\ UNCHANGED <<txFrame, txChild, pendingRetry>>
                         ELSE LET o == OverlayRetransmission(child, f)
                                  t == GetNextCslTransmissionDelay(child, radioNow, mCslFrameRequestAhead)
                              IN /\ last' = [out EXCEPT
                                               !.prepared = f,
                                               !.retryOf = pendingRetry[mCslTxChild],
                                               !.nextTxWindow = t.nextTxWindow,
                                               !.now = radioNow,
                                               !.frame = o.frame,
                                               !.isARetransmission = o.isARetransmission,
                                               !.channel = FrameChannel(child),
                                               !.txDelay = t.delayFromLastRx,
                                               !.txDelayBaseTime = child.lastRxTimestamp,
                                               !.csmaCaEnabled = FALSE]
                                 /\ macOp' = "tx"
                                 /\ txFrame' = o.frame
                                 /\ txChild' = mCslTxChild
                                 /\ pendingRetry' = [pendingRetry EXCEPT ![mCslTxChild] = NoRetry]
    /\ attemptHistory' = [attemptHistory EXCEPT !.stale = FALSE]
    /\ UNCHANGED <<children, mCslTxChild, mCslFrameRequestAhead>>

\* --------------------------------------------------------- Completion handler
\* SentFrameChild that saves the frame's fields on NoAck only.
SentFrameChildSavesOnNoAck(aChild, aFrame, aError) ==
    IF aError = "None"
    THEN [aChild EXCEPT !.cslTxAttempts = 0, !.indirectTxAttempts = 0]
    ELSE IF aError = "NoAck"
         THEN LET c1 == [aChild EXCEPT !.cslTxAttempts = @ + 1]
                  c2 == IF ~aFrame.empty
                        THEN [c1 EXCEPT !.indirectDataSequenceNumber = aFrame.seq]
                        ELSE c1
              IN IF ~aFrame.empty /\ aFrame.sec
                 THEN [c2 EXCEPT !.indirectFrameCounter = aFrame.fc, !.indirectKeyId = aFrame.kid]
                 ELSE c2
         ELSE aChild

\* SentFrameChild that resets the CSL attempt counter only on success.
SentFrameChildKeepsIndirect(aChild, aFrame, aError) ==
    IF aError = "None"
    THEN [aChild EXCEPT !.cslTxAttempts = 0]
    ELSE LET c1 == IF aError = "NoAck"
                   THEN [aChild EXCEPT !.cslTxAttempts = @ + 1]
                   ELSE aChild
             c2 == IF ~aFrame.empty
                   THEN [c1 EXCEPT !.indirectDataSequenceNumber = aFrame.seq]
                   ELSE c1
         IN IF ~aFrame.empty /\ aFrame.sec
            THEN [c2 EXCEPT !.indirectFrameCounter = aFrame.fc, !.indirectKeyId = aFrame.kid]
            ELSE c2

\* SentFrameChild that counts every failed attempt, not NoAck alone.
SentFrameChildCountsEveryFailure(aChild, aFrame, aError) ==
    IF aError = "None"
    THEN [aChild EXCEPT !.cslTxAttempts = 0, !.indirectTxAttempts = 0]
    ELSE LET c1 == [aChild EXCEPT !.cslTxAttempts = @ + 1]
             c2 == IF ~aFrame.empty
                   THEN [c1 EXCEPT !.indirectDataSequenceNumber = aFrame.seq]
                   ELSE c1
         IN IF ~aFrame.empty /\ aFrame.sec
            THEN [c2 EXCEPT !.indirectFrameCounter = aFrame.fc, !.indirectKeyId = aFrame.kid]
            ELSE c2

\* The effect of HandleSentFrame(aFrame, aError, aChild) on aChild (lines 232-267).
SentFrameChild(aChild, aFrame, aError) ==
    IF aError = "None"
    THEN [aChild EXCEPT !.cslTxAttempts = 0, !.indirectTxAttempts = 0]
    ELSE LET c1 == IF aError = "NoAck"
                   THEN [aChild EXCEPT !.cslTxAttempts = @ + 1]
                   ELSE aChild
             c2 == IF ~aFrame.empty
                   THEN [c1 EXCEPT !.indirectDataSequenceNumber = aFrame.seq]
                   ELSE c1
         IN IF ~aFrame.empty /\ aFrame.sec
            THEN [c2 EXCEPT !.indirectFrameCounter = aFrame.fc, !.indirectKeyId = aFrame.kid]
            ELSE c2

\* SentFrameReschedules with NoAck alone reaching RescheduleCslTx.
SentFrameReschedulesOnNoAck(aError) == aError = "NoAck"

\* Whether HandleSentFrame(aFrame, aError, aChild) reaches RescheduleCslTx
\* (line 269).
SentFrameReschedules(aError) == aError \in {"NoAck", "ChannelAccessFailure", "Abort"}

\* SentFrameForwards with the Abort case falling out of the switch.
SentFrameForwardsAbort(aError) == aError \notin {"NoAck", "ChannelAccessFailure"}

\* Whether it reaches mCallbacks.HandleSentFrameToChild (line 277): every
\* case that does not leave through ExitNow.
SentFrameForwards(aError) == aError \notin {"NoAck", "ChannelAccessFailure", "Abort"}

\* SentFrameTarget taking the child the frame was prepared for.
SentFrameTargetOfAttempt == txChild

\* The child HandleSentFrame(aFrame, aError) hands the result to (line 217).
SentFrameTarget == mCslTxChild

\* CslTxScheduler::HandleSentFrame(aFrame, aError), called by Mac when the
\* attempt concludes.  After a failed frame request Mac reports Abort with an
\* empty frame.  attemptHistory counts the NoAck for the child the frame was
\* prepared for, and starts again at a success.
HandleSentFrame ==
    /\ MacOwesCallback
    /\ \E aError \in MacResults, radioNow \in ClockValues :
         LET aFrame == MacSentFrame
             child  == SentFrameTarget
             out    == [Output("HandleSentFrame") EXCEPT
                          !.error = aError, !.frame = aFrame, !.forChild = txChild]
         IN /\ IF child = NoChild
               THEN /\ last' = out
                    /\ UNCHANGED <<children, mCslTxChild, mCslTxMessage, macReq, pendingRetry>>
               ELSE LET ch1 == [children EXCEPT ![child] = SentFrameChild(@, aFrame, aError)]
                        r   == RescheduleCslTx(ch1, radioNow, mCslFrameRequestAhead)
                        o1  == [out EXCEPT
                                  !.handledChild = child,
                                  !.cslTxAttemptsBefore = children[child].cslTxAttempts,
                                  !.indirectTxAttemptsBefore = children[child].indirectTxAttempts]
                    IN /\ children' = ch1
                       /\ pendingRetry' =
                            IF aError = "None"
                            THEN [pendingRetry EXCEPT ![child] = NoRetry]
                            ELSE IF aFrame.empty
                                 THEN pendingRetry
                                 ELSE [pendingRetry EXCEPT ![child] =
                                         [frame |-> aFrame, error |-> aError, cleared |-> FALSE]]
                       /\ mCslTxMessage' = NoMessage
                       /\ IF SentFrameReschedules(aError)
                          THEN /\ mCslTxChild' = r.bestChild
                               /\ macReq' = (macReq \/ r.macRequests > 0)
                          ELSE /\ mCslTxChild' = NoChild
                               /\ macReq' = macReq
                       /\ LET o2 == IF SentFrameReschedules(aError)
                                    THEN Rescheduled(o1, r, radioNow) ELSE o1
                          IN last' = IF SentFrameForwards(aError)
                                     THEN [o2 EXCEPT !.sentToChild = 1, !.sentChild = child,
                                                     !.sentError = aError]
                                     ELSE o2
            /\ attemptHistory' =
                 [ noAcked |->
                     [c \in Children |->
                        IF aError = "NoAck" /\ c = txChild /\ ~attemptHistory.stale
                        THEN attemptHistory.noAcked[c] + 1
                        ELSE IF aError = "None" /\ c \in {txChild, SentFrameTarget}
                             THEN 0
                             ELSE attemptHistory.noAcked[c]],
                   stale |-> FALSE ]
    /\ macOp' = "none"
    /\ txFrame' = EmptyFrame
    /\ txChild' = NoChild
    /\ UNCHANGED <<mMessageNextOffset, mCslFrameRequestAhead>>

\* ------------------------------------------------------------ Environment
\* A child's CSL parameters are (re)synchronized: Child::SetCslSynchronized,
\* SetCslPeriod, SetCslPhase, SetCslChannel, SetCslTimeout, SetCslLastHeard and
\* the rx timestamp of the frame that carried them.
ChildCslSync(c) ==
    /\ \E cfg \in CslConfigs :
         children' = [children EXCEPT ![c] =
                        [@ EXCEPT !.cslSynchronized = TRUE, !.cslPeriod = cfg.period,
                                  !.cslPhase = cfg.phase, !.cslChannel = cfg.channel,
                                  !.cslTimeout = cfg.timeout,
                                  !.cslLastHeard = (cfg.lastRx \div kUsPerMs) + 1,
                                  !.lastRxTimestamp = cfg.lastRx]]
    /\ last' = Output("Env")
    /\ UNCHANGED <<schedVars, macVars, pendingRetry, attemptHistory>>

\* A synchronized child stops CSL: its period becomes 0, it is no longer
\* synchronized, and the component that made the change calls Update.
ChildCslStop(c) ==
    /\ children[c].cslSynchronized
    /\ LET ch == [children EXCEPT ![c] =
                    [@ EXCEPT !.cslSynchronized = FALSE, !.cslPeriod = 0, !.cslPhase = 0]]
       IN /\ children' = ch
          /\ UpdateOn(ch)

\* The indirect-message queue of a child changes: a message is queued, the
\* current message is replaced by another, or the queue is purged.
QueueMessage(c) ==
    /\ \E m \in Messages \ {children[c].indirectMessage} :
         children' = [children EXCEPT ![c] =
                        [@ EXCEPT !.indirectMessageCount = 1, !.indirectMessage = m]]
    /\ last' = Output("Env")
    /\ UNCHANGED <<schedVars, macVars, pendingRetry, attemptHistory>>

PurgeMessages(c) ==
    /\ children[c].indirectMessageCount > 0
    /\ children' = [children EXCEPT ![c] =
                      [@ EXCEPT !.indirectMessageCount = 0, !.indirectMessage = NoMessage]]
    /\ last' = Output("Env")
    /\ UNCHANGED <<schedVars, macVars, pendingRetry, attemptHistory>>

\* A poll-triggered indirect transmission to the child fails
\* (Child::IncrementIndirectTxAttempts, outside the scheduler).
IndirectTxFailure(c) ==
    /\ children[c].indirectTxAttempts < MaxIndirectTxAttempts
    /\ children' = [children EXCEPT ![c] = [@ EXCEPT !.indirectTxAttempts = @ + 1]]
    /\ last' = Output("Env")
    /\ UNCHANGED <<schedVars, macVars, pendingRetry, attemptHistory>>

\* The scheduler with every child of the table in use and plain frames.
Next ==
    \/ Update
    \/ Clear
    \/ HandleFrameRequest(PlainFrames)
    \/ HandleSentFrame
    \/ \E c \in Children : ChildCslSync(c)
    \/ \E c \in Children : QueueMessage(c)
    \/ \E c \in Children : PurgeMessages(c)

Spec == Init /\ [][Next]_vars

\* The scheduler with one child in use, secured and unsecured frames,
\* poll-triggered indirect transmissions failing in between, and the child
\* stopping CSL.
RetxChildren == {1}

NextRetx ==
    \/ Update
    \/ Clear
    \/ HandleFrameRequest(NewFrames)
    \/ HandleSentFrame
    \/ \E c \in RetxChildren : ChildCslSync(c)
    \/ \E c \in RetxChildren : QueueMessage(c)
    \/ \E c \in RetxChildren : PurgeMessages(c)
    \/ \E c \in RetxChildren : IndirectTxFailure(c)
    \/ \E c \in RetxChildren : ChildCslStop(c)

RetxSpec == Init /\ [][NextRetx]_vars

\* Mac runs every requested transmission to its callbacks, and Update keeps
\* being triggered.
FairSpec ==
    /\ Spec
    /\ WF_vars(Update)
    /\ WF_vars(HandleFrameRequest(PlainFrames))
    /\ WF_vars(HandleSentFrame)

\* ----------------------------------------------- Timing model on its own
\* One child with CSL parameters drawn from TimingPeriods, TimingPhases and
\* TimingLastRx, and GetNextCslTransmissionDelay called at any radio time
\* up to MaxTimingNow, the radio clock never running backwards.  Each call
\* also records the window the call before it returned (0: no call before).
MaxTimingNow == 500
TimingPeriods == {1, 3}
TimingPhases == {0, 2}
TimingLastRx == {0, 7}

Max(a, b) == IF a >= b THEN a ELSE b

InitTiming ==
    /\ \E p \in TimingPeriods, ph \in TimingPhases, rx \in TimingLastRx :
         children = [c \in Children |->
                       IF c = 1
                       THEN [DefaultChild EXCEPT !.cslSynchronized = TRUE, !.cslPeriod = p,
                                                 !.cslPhase = ph, !.lastRxTimestamp = rx]
                       ELSE DefaultChild]
    /\ mCslTxChild = NoChild
    /\ mCslTxMessage = NoMessage
    /\ mMessageNextOffset = 0
    /\ \E busSpeedHz \in BusSpeeds : mCslFrameRequestAhead = InitFrameRequestAhead(busSpeedHz)
    /\ macReq = FALSE
    /\ macOp = "none"
    /\ txFrame = EmptyFrame
    /\ txChild = NoChild
    /\ pendingRetry = [c \in Children |-> NoRetry]
    /\ attemptHistory = NoHistory
    /\ last = NoOutput

NextWindow ==
    /\ \E aRadioNow \in Max(children[1].lastRxTimestamp, last.now)..MaxTimingNow :
         LET t == GetNextCslTransmissionDelay(children[1], aRadioNow, mCslFrameRequestAhead)
         IN last' = [Output("GetNextCslTransmissionDelay") EXCEPT
                       !.now = aRadioNow, !.nextTxWindow = t.nextTxWindow,
                       !.delay = t.delay, !.txDelay = t.delayFromLastRx,
                       !.prevNextTxWindow = last.nextTxWindow]
    /\ UNCHANGED <<children, schedVars, macVars, pendingRetry, attemptHistory>>

NextTiming == NextWindow

TimingSpec == InitTiming /\ [][NextTiming]_vars

\* ================================================================= Claims
HandledSentFrame == last.op = "HandleSentFrame"
PreparedFrame == last.op = "HandleFrameRequest" /\ last.error = "None"
WaitingForInFlightCompletion == mCslTxChild = NoChild /\ mCslTxMessage # NoMessage

\* C1: after any call to HandleSentFrame returns, mCslTxMessage is nullptr, and
\* whenever Mac has no attempt awaiting its completion callback, mCslTxMessage
\* is nullptr.
C1_SentFrameClearsMessage ==
    /\ HandledSentFrame => mCslTxMessage = NoMessage
    /\ macOp = "none" => mCslTxMessage = NoMessage

\* C2: once Update has cleared mCslTxChild and left mCslTxMessage set, the
\* completion callback resolves it: with Mac running every transmission to its
\* callbacks and Update being triggered, the scheduler is eventually idle again
\* (mCslTxMessage is nullptr), from where Update can select.
C2_WaitingResolves ==
    WaitingForInFlightCompletion ~> (mCslTxMessage = NoMessage)

\* C3: RescheduleCslTx selects, among the children that are synchronized, have
\* a pending indirect message and fewer than kMaxCslTriggeredTxAttempts
\* attempts, the one with the least delay to its next window, and of several
\* with the least delay the first in child-table order.
C3_Candidates ==
    { c \in Children : /\ children[c].cslSynchronized
                       /\ children[c].indirectMessageCount > 0
                       /\ children[c].cslTxAttempts < kMaxCslTriggeredTxAttempts }

C3_Delay(c) ==
    GetNextCslTransmissionDelay(children[c], last.now, mCslFrameRequestAhead).delay

C3_SelectsEarliestFirst ==
    last.rescheduled =>
        IF C3_Candidates = {}
        THEN mCslTxChild = NoChild
        ELSE /\ mCslTxChild \in C3_Candidates
             /\ \A c \in C3_Candidates :
                  \/ C3_Delay(mCslTxChild) < C3_Delay(c)
                  \/ C3_Delay(mCslTxChild) = C3_Delay(c) /\ mCslTxChild <= c

C3_Witness ==
    /\ last.rescheduled
    /\ C3_Candidates = Children
    /\ mCslTxChild = 1
    /\ C3_Delay(1) = C3_Delay(2)

\* C4: a child with kMaxCslTriggeredTxAttempts or more CSL attempts is never
\* chosen by RescheduleCslTx, and when no other child has a pending message the
\* scheduler is left idle: mCslTxChild is nullptr and Mac is asked for nothing.
C4_MaxAttemptsNeverChosen ==
    last.rescheduled =>
        /\ mCslTxChild # NoChild =>
             children[mCslTxChild].cslTxAttempts < kMaxCslTriggeredTxAttempts
        /\ (\A c \in Children :
              children[c].indirectMessageCount > 0 =>
                  children[c].cslTxAttempts >= kMaxCslTriggeredTxAttempts)
           => (mCslTxChild = NoChild /\ last.macRequests = 0)

C4_Witness ==
    /\ last.rescheduled
    /\ mCslTxChild = NoChild
    /\ last.macRequests = 0
    /\ \E c \in Children :
         /\ children[c].cslSynchronized
         /\ children[c].indirectMessageCount > 0
         /\ children[c].cslTxAttempts >= kMaxCslTriggeredTxAttempts
         /\ \A d \in Children \ {c} : children[d].indirectMessageCount = 0

\* C5: the completion of an attempt changes the CSL attempt counter and the
\* saved sequence number, frame counter and key id of no child other than the
\* one the attempt's frame was prepared for.
C5_OutcomeOnlyForAttemptChild ==
    [][ last'.op = "HandleSentFrame" =>
          \A c \in Children \ {txChild} :
             /\ children'[c].cslTxAttempts = children[c].cslTxAttempts
             /\ children'[c].indirectDataSequenceNumber = children[c].indirectDataSequenceNumber
             /\ children'[c].indirectFrameCounter = children[c].indirectFrameCounter
             /\ children'[c].indirectKeyId = children[c].indirectKeyId ]_vars

\* C6 as stated: every attempt that ends with success is forwarded to
\* IndirectSender::HandleSentFrameToChild exactly once, and one that ends with
\* NoAck, ChannelAccessFailure or Abort is not forwarded.
C6_SuccessAlwaysForwarded ==
    HandledSentFrame =>
        last.sentToChild = (IF last.error = "None" THEN 1 ELSE 0)

\* C6 as amended: an attempt that ends with success is forwarded exactly once,
\* for the child mCslTxChild names when the callback runs, and not at all when
\* mCslTxChild is nullptr by then; a failed attempt is never forwarded.
C6_SuccessForwardedIfChildSet ==
    HandledSentFrame =>
        /\ last.sentToChild =
             (IF last.error = "None" /\ last.handledChild # NoChild THEN 1 ELSE 0)
        /\ last.sentToChild = 1 =>
             (last.sentChild = last.handledChild /\ last.sentError = "None")

C6_Witness ==
    /\ HandledSentFrame
    /\ last.error = "None"
    /\ last.sentToChild = 1
    /\ last.sentChild = last.forChild

\* The values a retried frame takes from the failed one.
ReusesValuesOf(retry) ==
    /\ last.isARetransmission
    /\ last.frame.seq = retry.frame.seq
    /\ (last.frame.sec /\ retry.frame.sec) =>
          (last.frame.fc = retry.frame.fc /\ last.frame.kid = retry.frame.kid)

C7_CountsOneMore ==
    (HandledSentFrame /\ last.error = "NoAck" /\ last.handledChild # NoChild) =>
        children[last.handledChild].cslTxAttempts = last.cslTxAttemptsBefore + 1

\* C7 as stated: NoAck adds exactly one to the child's CSL attempt counter,
\* and the next frame prepared for the child is a retransmission with the
\* sequence number (and, secured, frame counter and key id) of the frame that
\* was not acknowledged.
C7_NoAckRetryReuses ==
    /\ C7_CountsOneMore
    /\ (PreparedFrame /\ last.retryOf.error = "NoAck") => ReusesValuesOf(last.retryOf)

\* C7 as amended: the same, unless Clear() was called between the NoAck and
\* the next frame prepared for the child.
C7_NoAckRetryReusesUnlessCleared ==
    /\ C7_CountsOneMore
    /\ (PreparedFrame /\ last.retryOf.error = "NoAck" /\ ~last.retryOf.cleared)
          => ReusesValuesOf(last.retryOf)

C7_Witness ==
    /\ PreparedFrame
    /\ last.retryOf.error = "NoAck"
    /\ ~last.retryOf.cleared
    /\ last.frame.sec /\ last.retryOf.frame.sec
    /\ last.prepared.seq # last.frame.seq
    /\ children[last.forChild].cslTxAttempts = 1

\* The failed frame's fields are saved in the child record.
C8_Persisted ==
    (/\ HandledSentFrame
     /\ last.error \in {"ChannelAccessFailure", "Abort"}
     /\ ~last.frame.empty
     /\ last.handledChild # NoChild) =>
        LET child == children[last.handledChild]
        IN /\ child.indirectDataSequenceNumber = last.frame.seq
           /\ last.frame.sec => /\ child.indirectFrameCounter = last.frame.fc
                                /\ child.indirectKeyId = last.frame.kid

\* C8 as stated: after ChannelAccessFailure or Abort for a non-empty frame its
\* sequence number (and, secured, frame counter and key id) are saved in the
\* child record, and the next frame prepared for the child reuses them.
C8_FailureRetryReuses ==
    /\ C8_Persisted
    /\ (PreparedFrame /\ last.retryOf.error \in {"ChannelAccessFailure", "Abort"})
          => ReusesValuesOf(last.retryOf)

\* C8 as amended: they are saved, and the next frame prepared for the child
\* reuses them if the child's indirect or CSL attempt counter is above zero at
\* that time; with both counters zero the frame is not a retransmission and
\* keeps the values IndirectSender gave it.
C8_FailureRetryReusesIfCounted ==
    /\ C8_Persisted
    /\ (PreparedFrame /\ last.retryOf.error \in {"ChannelAccessFailure", "Abort"}) =>
          IF \/ children[last.forChild].indirectTxAttempts > 0
             \/ children[last.forChild].cslTxAttempts > 0
          THEN ReusesValuesOf(last.retryOf)
          ELSE ~last.isARetransmission /\ last.frame = last.prepared

C8_Witness ==
    /\ PreparedFrame
    /\ last.retryOf.error = "ChannelAccessFailure"
    /\ last.isARetransmission
    /\ last.prepared.seq # last.frame.seq
    /\ last.frame.seq = children[last.forChild].indirectDataSequenceNumber

\* C9: after HandleSentFrame with success for the child in flight, the child's
\* CSL attempt counter and indirect attempt counter are both 0.
C9_SuccessResetsCounters ==
    (HandledSentFrame /\ last.error = "None" /\ last.handledChild # NoChild) =>
        /\ children[last.handledChild].cslTxAttempts = 0
        /\ children[last.handledChild].indirectTxAttempts = 0

C9_Witness ==
    /\ HandledSentFrame
    /\ last.error = "None"
    /\ last.handledChild # NoChild
    /\ last.cslTxAttemptsBefore > 0
    /\ last.indirectTxAttemptsBefore > 0
    /\ children[last.handledChild].cslTxAttempts = 0

\* The window GetNextCslTransmissionDelay returned, the period in microseconds,
\* the first window after the last rx, and radioNow plus the request-ahead.
TimingCalled == last.op = "GetNextCslTransmissionDelay"
TimingPeriodUs == children[1].cslPeriod * kUsPerTenSymbols
TimingFirstWindow == children[1].lastRxTimestamp + children[1].cslPhase * kUsPerTenSymbols
TimingLimit == last.now + mCslFrameRequestAhead

RequestAheadMarginUs == mCslFrameRequestAhead * kUsPerTenSymbols

\* C11: for every child with a period above zero and every radioNow, the delay
\* from now that GetNextCslTransmissionDelay returns is at least the
\* request-ahead margin InitFrameRequestAhead derived.
C11_DelayAtLeastMargin ==
    TimingCalled => last.delay >= RequestAheadMarginUs

\* What the loop at line 164 does guarantee: the delay in microseconds exceeds
\* the number of ten-symbol units in mCslFrameRequestAhead.
C11_DelayExceedsUnitCount ==
    TimingCalled => last.delay > mCslFrameRequestAhead

\* C12: for a child whose period, phase and last rx timestamp stay the same,
\* calls of GetNextCslTransmissionDelay with a radioNow that never decreases
\* return window times that never decrease, each congruent to
\* lastRxTimestamp + phase modulo the period.
C12_WindowsMonotoneAndCongruent ==
    TimingCalled =>
        /\ last.nextTxWindow % TimingPeriodUs = TimingFirstWindow % TimingPeriodUs
        /\ last.prevNextTxWindow # 0 => last.nextTxWindow >= last.prevNextTxWindow

C12_Witness ==
    /\ TimingCalled
    /\ last.prevNextTxWindow # 0
    /\ last.nextTxWindow > last.prevNextTxWindow
    /\ TimingFirstWindow % TimingPeriodUs # 0

\* C13: after Clear(), whatever the state it is called in, mCslTxChild and
\* mCslTxMessage are nullptr and every child has CSL attempt counter 0, is not
\* synchronized and has CSL channel, period and phase 0; an Update right after
\* it requests no transmission, and a frame request Mac makes right after it,
\* for the selection Clear discarded, returns OT_ERROR_ABORT.
C13_ClearLeavesIdle ==
    /\ last.op = "Clear" =>
          /\ mCslTxChild = NoChild
          /\ mCslTxMessage = NoMessage
          /\ \A c \in Children :
                /\ children[c].cslTxAttempts = 0
                /\ ~children[c].cslSynchronized
                /\ children[c].cslChannel = 0
                /\ children[c].cslPeriod = 0
                /\ children[c].cslPhase = 0
    /\ (last.op = "Update" /\ last.afterClear) =>
          (last.macRequests = 0 /\ mCslTxChild = NoChild)
    /\ (last.op = "HandleFrameRequest" /\ last.afterClear) =>
          (last.error = "Abort" /\ last.prepareCalls = 0)

C13_Witness ==
    /\ last.op = "HandleFrameRequest"
    /\ last.afterClear
    /\ last.error = "Abort"
    /\ \E c \in Children : children[c].indirectMessageCount > 0

\* C14: HandleFrameRequest called while mCslTxChild is nullptr returns
\* OT_ERROR_ABORT, sets no field of the frame, does not call
\* PrepareFrameForChild, and leaves mCslTxChild, mCslTxMessage and every child
\* record as they were.
C14_RequestWithoutChildAborts ==
    [][ (last'.op = "HandleFrameRequest" /\ mCslTxChild = NoChild) =>
          /\ last'.error = "Abort"
          /\ last'.prepareCalls = 0
          /\ last'.frame = EmptyFrame
          /\ last'.isARetransmission = NoOutput.isARetransmission
          /\ last'.channel = NoOutput.channel
          /\ last'.txDelay = NoOutput.txDelay
          /\ last'.txDelayBaseTime = NoOutput.txDelayBaseTime
          /\ last'.csmaCaEnabled = NoOutput.csmaCaEnabled
          /\ mCslTxChild' = mCslTxChild
          /\ mCslTxMessage' = mCslTxMessage
          /\ mMessageNextOffset' = mMessageNextOffset
          /\ children' = children ]_vars

C14_Witness ==
    /\ last.op = "HandleFrameRequest"
    /\ last.error = "Abort"
    /\ last.prepareCalls = 0
    /\ mCslTxChild = NoChild
    /\ ~last.afterClear
    /\ \E c \in Children : IsEligible(children[c])

\* C15: RescheduleCslTx runs, and Mac is asked for a CSL transmission, only
\* while mCslTxMessage is nullptr; an Update that finds mCslTxMessage set and
\* the indirect message of mCslTxChild different from it sets mCslTxChild to
\* nullptr, leaves mCslTxMessage as it is and asks Mac for nothing.
C15_NoReselectionInFlight ==
    [][ /\ last'.rescheduled => mCslTxMessage' = NoMessage
        /\ last'.macRequests > 0 => last'.rescheduled
        /\ (last'.op = "Update" /\ last'.rescheduled) => mCslTxMessage = NoMessage
        /\ (last'.op = "Update" /\ mCslTxMessage # NoMessage) =>
              /\ ~last'.rescheduled
              /\ last'.macRequests = 0
              /\ macReq' = macReq
              /\ mCslTxMessage' = mCslTxMessage
              /\ (mCslTxChild # NoChild /\ children[mCslTxChild].indirectMessage # mCslTxMessage)
                    => mCslTxChild' = NoChild ]_vars

C15_Witness ==
    /\ last.op = "Update"
    /\ ~last.rescheduled
    /\ mCslTxChild = NoChild
    /\ mCslTxMessage # NoMessage
    /\ macOp = "tx"
    /\ children[txChild].indirectMessage # mCslTxMessage

C17_AccessFailureRetriesUncounted ==
    (/\ HandledSentFrame
     /\ last.error \in {"ChannelAccessFailure", "Abort"}
     /\ last.handledChild # NoChild) =>
        /\ children[last.handledChild].cslTxAttempts = last.cslTxAttemptsBefore
        /\ children[last.handledChild].indirectTxAttempts = last.indirectTxAttemptsBefore
        /\ last.rescheduled
        /\ last.sentToChild = 0
        /\ last.handledChild \in C3_Candidates =>
              /\ mCslTxChild # NoChild
              /\ last.macRequests = 1
              /\ C3_Delay(mCslTxChild) <= C3_Delay(last.handledChild)

C17_Witness ==
    /\ HandledSentFrame
    /\ last.error = "ChannelAccessFailure"
    /\ last.handledChild # NoChild
    /\ last.cslTxAttemptsBefore > 0
    /\ mCslTxChild = last.handledChild
    /\ last.macRequests = 1
    /\ C3_Candidates = Children

\* C18: HandleSentFrame called while mCslTxChild is nullptr changes no child's
\* attempt counters, saved sequence number, frame counter or key id, does not
\* call IndirectSender::HandleSentFrameToChild and asks Mac for no
\* transmission.
C18_SentFrameWithoutChildIsNoOp ==
    [][ (last'.op = "HandleSentFrame" /\ mCslTxChild = NoChild) =>
          /\ children' = children
          /\ last'.sentToChild = 0
          /\ ~last'.rescheduled
          /\ last'.macRequests = 0
          /\ macReq' = macReq
          /\ mCslTxChild' = NoChild ]_vars

C18_Witness ==
    /\ HandledSentFrame
    /\ last.handledChild = NoChild
    /\ last.error = "NoAck"
    /\ last.forChild # NoChild
    /\ ~last.frame.empty
    /\ IsEligible(children[last.forChild])

\* C19: each RescheduleCslTx makes exactly one request to
\* Mac::RequestCslFrameTransmission, with the selected child's delay in
\* milliseconds, when a child is eligible, and makes none and sets mCslTxChild
\* to nullptr when none is; when it returns mCslTxChild is set if and only if
\* it made a request.
C19_OneRequestPerSelection ==
    last.rescheduled =>
        /\ IF C3_Candidates # {}
           THEN /\ last.macRequests = 1
                /\ mCslTxChild # NoChild
                /\ last.macDelay = C3_Delay(mCslTxChild) \div kUsPerMs
                /\ macReq
           ELSE /\ last.macRequests = 0
                /\ mCslTxChild = NoChild
        /\ (mCslTxChild # NoChild) <=> (last.macRequests = 1)

C19_Witness ==
    /\ last.rescheduled
    /\ last.macRequests = 1
    /\ last.macDelay = 1
    /\ C3_Delay(mCslTxChild) > kUsPerMs

====
